---------------------------- MODULE Spec2Model ----------------------------
(***************************************************************************)
(* Model of the change-diff service of movie-match (src/diff_tracker.py).  *)
(*                                                                         *)
(* Python strings are sequences of character codes, so that str(),         *)
(* strip(), substring tests, lexicographic comparison and JSON encoding    *)
(* are computed the way the code computes them.  A Python value is a       *)
(* record of one uniform shape, [k, n, s, d, l]:                           *)
(*    k = "null"  None                                                     *)
(*    k = "int"   an integer, n                                            *)
(*    k = "str"   a string, s                                              *)
(*    k = "list"  a list, l (a sequence of values)                         *)
(*    k = "dict"  a dict, d (a function from strings to values)            *)
(***************************************************************************)
EXTENDS Integers, Sequences, FiniteSets, TLC

\* ------------------------------------------------------------------------
\* Bounds of the model

\* longest before / after snapshot of the requests with a full record domain
MaxLen == 2

\* ------------------------------------------------------------------------
\* String literals of the program

\* "id"
S_id == <<105, 100>>
\* "name"
S_name == <<110, 97, 109, 101>>
\* "year"
S_year == <<121, 101, 97, 114>>
\* "before"
S_before == <<98, 101, 102, 111, 114, 101>>
\* "after"
S_after == <<97, 102, 116, 101, 114>>
\* "changed_fields"
S_changed_fields == <<99, 104, 97, 110, 103, 101, 100, 95, 102, 105, 101, 108, 100, 115>>
\* "status"
S_status == <<115, 116, 97, 116, 117, 115>>
\* "ok"
S_ok == <<111, 107>>
\* "error"
S_error == <<101, 114, 114, 111, 114>>
\* "id_field"
S_id_field == <<105, 100, 95, 102, 105, 101, 108, 100>>
\* "fields_to_compare"
S_fields_to_compare == <<102, 105, 101, 108, 100, 115, 95, 116, 111, 95, 99, 111, 109, 112, 97, 114, 101>>
\* "added_items"
S_added_items == <<97, 100, 100, 101, 100, 95, 105, 116, 101, 109, 115>>
\* "removed_items"
S_removed_items == <<114, 101, 109, 111, 118, 101, 100, 95, 105, 116, 101, 109, 115>>
\* "modified_items"
S_modified_items == <<109, 111, 100, 105, 102, 105, 101, 100, 95, 105, 116, 101, 109, 115>>
\* "request_type"
S_request_type == <<114, 101, 113, 117, 101, 115, 116, 95, 116, 121, 112, 101>>
\* "change_diff"
S_change_diff == <<99, 104, 97, 110, 103, 101, 95, 100, 105, 102, 102>>
\* "Invalid JSON in request body."
MsgInvalidJson == <<73, 110, 118, 97, 108, 105, 100, 32, 74, 83, 79, 78, 32, 105, 110, 32, 114, 101, 113, 117, 101, 115, 116, 32, 98, 111, 100, 121, 46>>
\* "Unsupported request_type. Expected 'change_diff'."
MsgUnsupported == <<85, 110, 115, 117, 112, 112, 111, 114, 116, 101, 100, 32, 114, 101, 113, 117, 101, 115, 116, 95, 116, 121, 112, 101, 46, 32, 69, 120, 112, 101, 99, 116, 101, 100, 32, 39, 99, 104, 97, 110, 103, 101, 95, 100, 105, 102, 102, 39, 46>>
\* "'id_field' must be a non-empty string."
MsgIdField == <<39, 105, 100, 95, 102, 105, 101, 108, 100, 39, 32, 109, 117, 115, 116, 32, 98, 101, 32, 97, 32, 110, 111, 110, 45, 101, 109, 112, 116, 121, 32, 115, 116, 114, 105, 110, 103, 46>>
\* "'fields_to_compare' must be a non-empty list of field names."
MsgFieldsList == <<39, 102, 105, 101, 108, 100, 115, 95, 116, 111, 95, 99, 111, 109, 112, 97, 114, 101, 39, 32, 109, 117, 115, 116, 32, 98, 101, 32, 97, 32, 110, 111, 110, 45, 101, 109, 112, 116, 121, 32, 108, 105, 115, 116, 32, 111, 102, 32, 102, 105, 101, 108, 100, 32, 110, 97, 109, 101, 115, 46>>
\* "All entries in 'fields_to_compare' must be non-empty strings."
MsgFieldsEntries == <<65, 108, 108, 32, 101, 110, 116, 114, 105, 101, 115, 32, 105, 110, 32, 39, 102, 105, 101, 108, 100, 115, 95, 116, 111, 95, 99, 111, 109, 112, 97, 114, 101, 39, 32, 109, 117, 115, 116, 32, 98, 101, 32, 110, 111, 110, 45, 101, 109, 112, 116, 121, 32, 115, 116, 114, 105, 110, 103, 115, 46>>
\* "'before' and 'after' must both be lists."
MsgSnapshots == <<39, 98, 101, 102, 111, 114, 101, 39, 32, 97, 110, 100, 32, 39, 97, 102, 116, 101, 114, 39, 32, 109, 117, 115, 116, 32, 98, 111, 116, 104, 32, 98, 101, 32, 108, 105, 115, 116, 115, 46>>
\* "Internal error: "
MsgInternalPrefix == <<73, 110, 116, 101, 114, 110, 97, 108, 32, 101, 114, 114, 111, 114, 58, 32>>

\* ------------------------------------------------------------------------
\* Python values

\* the dict with no keys (and the function with no arguments)
EmptyMap == <<>>

\* Python's None
None == [k |-> "null", n |-> 0, s |-> <<>>, d |-> EmptyMap, l |-> <<>>]

PyInt(i) == [k |-> "int", n |-> i, s |-> <<>>, d |-> EmptyMap, l |-> <<>>]

PyString(str) == [k |-> "str", n |-> 0, s |-> str, d |-> EmptyMap, l |-> <<>>]

PyList(items) == [k |-> "list", n |-> 0, s |-> <<>>, d |-> EmptyMap, l |-> items]

PyDict(map) == [k |-> "dict", n |-> 0, s |-> <<>>, d |-> map, l |-> <<>>]

\* m[key] = value on a dict: the key is added, or its value replaced
SetItem(map, key, value) ==
    [x \in (DOMAIN map) \cup {key} |-> IF x = key THEN value ELSE map[x]]

\* a dict display {k1: v1, k2: v2, ...}: the pairs are stored left to right,
\* so a later pair with an equal key replaces the value of an earlier one
RECURSIVE DictDisplay(_)
DictDisplay(pairs) ==
    IF pairs = <<>> THEN EmptyMap
    ELSE LET n == Len(pairs)
         IN  SetItem(DictDisplay(SubSeq(pairs, 1, n - 1)), pairs[n][1], pairs[n][2])

\* dict.get(key, default)
Get(obj, key, default) == IF key \in DOMAIN obj.d THEN obj.d[key] ELSE default

\* isinstance(v, str), isinstance(v, list)
IsStr(v) == v.k = "str"

IsList(v) == v.k = "list"

\* str.isspace() of one ASCII character
IsSpace(c) == c \in {9, 10, 11, 12, 13, 32}

\* str.strip(): whitespace is removed at both ends
RECURSIVE LStrip(_)
LStrip(str) ==
    IF str # <<>> /\ IsSpace(Head(str)) THEN LStrip(Tail(str)) ELSE str

RECURSIVE RStrip(_)
RStrip(str) ==
    IF str # <<>> /\ IsSpace(str[Len(str)])
    THEN RStrip(SubSeq(str, 1, Len(str) - 1))
    ELSE str

Strip(str) == RStrip(LStrip(str))

\* sub in str, for two strings
IsSubstring(sub, str) ==
    \E i \in 0 .. (Len(str) - Len(sub)) : SubSeq(str, i + 1, i + Len(sub)) = sub

\* a < b for two strings: by code point, a proper prefix first
RECURSIVE StrLess(_, _)
StrLess(a, b) ==
    IF b = <<>> THEN FALSE
    ELSE IF a = <<>> THEN TRUE
    ELSE IF Head(a) # Head(b) THEN Head(a) < Head(b)
    ELSE StrLess(Tail(a), Tail(b))

\* the decimal digits of an integer
RECURSIVE IntToStr(_)
IntToStr(i) ==
    IF i < 0 THEN <<45>> \o IntToStr(0 - i)
    ELSE IF i < 10 THEN <<48 + i>>
    ELSE IntToStr(i \div 10) \o <<48 + (i % 10)>>

\* str(x) of a hashable value: the sort key of compute_diffs
PyStr(v) ==
    CASE v.k = "int" -> IntToStr(v.n)
      [] v.k = "str" -> v.s
      [] OTHER -> <<78, 111, 110, 101>>

\* hash(x) raises TypeError for lists and dicts
IsHashable(v) == v.k \notin {"list", "dict"}

\* ------------------------------------------------------------------------
\* Serialization

\* the strings of a set in ascending order (sort_keys=True)
RECURSIVE SortedKeys(_)
SortedKeys(keys) ==
    IF keys = {} THEN <<>>
    ELSE LET least == CHOOSE x \in keys : \A y \in keys \ {x} : StrLess(x, y)
         IN  <<least>> \o SortedKeys(keys \ {least})

\* a JSON string literal (the model's strings hold no character that
\* json.dumps escapes)
JsonString(str) == <<34>> \o str \o <<34>>

\* json.dumps(v, sort_keys=True, separators=(",", ":"))
RECURSIVE Dumps(_)
RECURSIVE DumpsList(_)
RECURSIVE DumpsMembers(_, _)
Dumps(v) ==
    CASE v.k = "null" -> <<110, 117, 108, 108>>
      [] v.k = "int" -> IntToStr(v.n)
      [] v.k = "str" -> JsonString(v.s)
      [] v.k = "list" -> <<91>> \o DumpsList(v.l) \o <<93>>
      [] OTHER -> <<123>> \o DumpsMembers(v.d, SortedKeys(DOMAIN v.d)) \o <<125>>

DumpsList(items) ==
    IF items = <<>> THEN <<>>
    ELSE IF Len(items) = 1 THEN Dumps(items[1])
    ELSE Dumps(items[1]) \o <<44>> \o DumpsList(Tail(items))

DumpsMembers(map, keys) ==
    IF keys = <<>> THEN <<>>
    ELSE LET member == JsonString(keys[1]) \o <<58>> \o Dumps(map[keys[1]])
         IN  IF Len(keys) = 1 THEN member
             ELSE member \o <<44>> \o DumpsMembers(map, Tail(keys))

\* serialize_response: the text is ASCII, which UTF-8 encodes byte for byte
serialize_response(response_dict) == Dumps(response_dict)

make_error_response(message) ==
    PyDict(DictDisplay(<< <<S_status, PyString(S_error)>>,
                          <<S_error, PyString(message)>> >>))

make_success_response(idf, fields, added, removed, modified) ==
    PyDict(DictDisplay(<< <<S_status, PyString(S_ok)>>,
                          <<S_id_field, idf>>,
                          <<S_fields_to_compare, fields>>,
                          <<S_added_items, added>>,
                          <<S_removed_items, removed>>,
                          <<S_modified_items, modified>> >>))

\* ------------------------------------------------------------------------
\* Exceptions: the interpreter's message texts, as str(e) gives them

\* "NoneType"
T_NoneType == <<78, 111, 110, 101, 84, 121, 112, 101>>
\* "int"
T_int == <<105, 110, 116>>
\* "str"
T_str == <<115, 116, 114>>
\* "list"
T_list == <<108, 105, 115, 116>>
\* "dict"
T_dict == <<100, 105, 99, 116>>
\* "argument of type '"
ExcNotIterablePre == <<97, 114, 103, 117, 109, 101, 110, 116, 32, 111, 102, 32, 116, 121, 112, 101, 32, 39>>
\* "' is not iterable"
ExcNotIterablePost == <<39, 32, 105, 115, 32, 110, 111, 116, 32, 105, 116, 101, 114, 97, 98, 108, 101>>
\* "string indices must be integers, not 'str'"
ExcStrIndex == <<115, 116, 114, 105, 110, 103, 32, 105, 110, 100, 105, 99, 101, 115, 32, 109, 117, 115, 116, 32, 98, 101, 32, 105, 110, 116, 101, 103, 101, 114, 115, 44, 32, 110, 111, 116, 32, 39, 115, 116, 114, 39>>
\* "list indices must be integers or slices, not str"
ExcListIndex == <<108, 105, 115, 116, 32, 105, 110, 100, 105, 99, 101, 115, 32, 109, 117, 115, 116, 32, 98, 101, 32, 105, 110, 116, 101, 103, 101, 114, 115, 32, 111, 114, 32, 115, 108, 105, 99, 101, 115, 44, 32, 110, 111, 116, 32, 115, 116, 114>>
\* "unhashable type: '"
ExcUnhashablePre == <<117, 110, 104, 97, 115, 104, 97, 98, 108, 101, 32, 116, 121, 112, 101, 58, 32, 39>>
\* "' object has no attribute 'get'"
ExcNoGetPost == <<39, 32, 111, 98, 106, 101, 99, 116, 32, 104, 97, 115, 32, 110, 111, 32, 97, 116, 116, 114, 105, 98, 117, 116, 101, 32, 39, 103, 101, 116, 39>>
\* "'utf-8' codec can't decode byte 0xff in position 0: invalid start byte"
ExcUnicode == <<39, 117, 116, 102, 45, 56, 39, 32, 99, 111, 100, 101, 99, 32, 99, 97, 110, 39, 116, 32, 100, 101, 99, 111, 100, 101, 32, 98, 121, 116, 101, 32, 48, 120, 102, 102, 32, 105, 110, 32, 112, 111, 115, 105, 116, 105, 111, 110, 32, 48, 58, 32, 105, 110, 118, 97, 108, 105, 100, 32, 115, 116, 97, 114, 116, 32, 98, 121, 116, 101>>

\* type(v).__name__
TypeName(v) ==
    CASE v.k = "null" -> T_NoneType
      [] v.k = "int" -> T_int
      [] v.k = "str" -> T_str
      [] v.k = "list" -> T_list
      [] OTHER -> T_dict

\* no exception is pending
NoExc == <<>>

\* ------------------------------------------------------------------------
\* Core diff logic

Range(seq) == {seq[i] : i \in DOMAIN seq}

\* the outcome of build_index: the index, or the exception it raised
Indexed(index) == [raised |-> FALSE, exc |-> NoExc, index |-> index]

IndexRaised(message) == [raised |-> TRUE, exc |-> message, index |-> EmptyMap]

\* the loop body without its `if id_field in item` test for a dict: a record
\* with no identity is filed under None
index_item_keyless(index, item, idf) ==
    IF item.k = "dict"
    THEN Indexed(SetItem(index, Get(item, idf, None), item))
    ELSE IndexRaised(ExcNotIterablePre \o TypeName(item) \o ExcNotIterablePost)

\* index_item keeping the first item of an identity value
index_item_first(index, item, idf) ==
    CASE item.k = "dict" ->
            IF idf \notin DOMAIN item.d THEN Indexed(index)
            ELSE IF ~IsHashable(item.d[idf])
            THEN IndexRaised(ExcUnhashablePre \o TypeName(item.d[idf]) \o <<39>>)
            ELSE IF item.d[idf] \in DOMAIN index THEN Indexed(index)
            ELSE Indexed(SetItem(index, item.d[idf], item))
      [] item.k = "str" ->
            IF IsSubstring(idf, item.s) THEN IndexRaised(ExcStrIndex)
            ELSE Indexed(index)
      [] item.k = "list" ->
            IF PyString(idf) \in Range(item.l) THEN IndexRaised(ExcListIndex)
            ELSE Indexed(index)
      [] OTHER ->
            IndexRaised(ExcNotIterablePre \o TypeName(item) \o ExcNotIterablePost)

\* one pass of the loop of build_index: `if id_field in item:
\* index[item[id_field]] = item`, for a dict and for the other types a
\* JSON array can hold
index_item(index, item, idf) ==
    CASE item.k = "dict" ->
            IF idf \notin DOMAIN item.d THEN Indexed(index)
            ELSE IF ~IsHashable(item.d[idf])
            THEN IndexRaised(ExcUnhashablePre \o TypeName(item.d[idf]) \o <<39>>)
            ELSE Indexed(SetItem(index, item.d[idf], item))
      [] item.k = "str" ->
            IF IsSubstring(idf, item.s) THEN IndexRaised(ExcStrIndex)
            ELSE Indexed(index)
      [] item.k = "list" ->
            IF PyString(idf) \in Range(item.l) THEN IndexRaised(ExcListIndex)
            ELSE Indexed(index)
      [] OTHER ->
            IndexRaised(ExcNotIterablePre \o TypeName(item) \o ExcNotIterablePost)

\* build_index(items, id_field): items in sequence order, a later item
\* with an equal identity value replacing the earlier one
RECURSIVE build_index(_, _)
build_index(items, idf) ==
    IF items = <<>> THEN Indexed(EmptyMap)
    ELSE LET n == Len(items)
             sofar == build_index(SubSeq(items, 1, n - 1), idf)
         IN  IF sofar.raised THEN sofar
             ELSE index_item(sofar.index, items[n], idf)

\* compare_field taking a missing field to differ from an explicit null
compare_field_missing(before_item, after_item, field_name) ==
    LET before_value == Get(before_item, field_name, None)
        after_value == Get(after_item, field_name, None)
    IN  [changed |-> \/ before_value # after_value
                     \/ (field_name \in DOMAIN before_item.d) # (field_name \in DOMAIN after_item.d),
         before_value |-> before_value,
         after_value |-> after_value]

\* compare_field(before_item, after_item, field_name)
compare_field(before_item, after_item, field_name) ==
    LET before_value == Get(before_item, field_name, None)
        after_value == Get(after_item, field_name, None)
    IN  [changed |-> before_value # after_value,
         before_value |-> before_value,
         after_value |-> after_value]

\* the inner loop of compute_diffs: the changed_fields dict of one candidate
RECURSIVE changed_fields_of(_, _, _)
changed_fields_of(before_item, after_item, fields) ==
    IF fields = <<>> THEN EmptyMap
    ELSE LET n == Len(fields)
             sofar == changed_fields_of(before_item, after_item, SubSeq(fields, 1, n - 1))
             cmp == compare_field(before_item, after_item, fields[n].s)
         IN  IF cmp.changed
             THEN SetItem(sofar, fields[n].s,
                          PyDict(DictDisplay(<< <<S_before, cmp.before_value>>,
                                                <<S_after, cmp.after_value>> >>)))
             ELSE sofar

\* the dict appended to modified_items
modified_entry(idf, id_val, before_item, after_item, changed_fields) ==
    PyDict(DictDisplay(<< <<idf, id_val>>,
                          <<S_before, before_item>>,
                          <<S_after, after_item>>,
                          <<S_changed_fields, PyDict(changed_fields)>> >>))

\* the outer loop without its `if changed_fields:` test
RECURSIVE modified_loop_unguarded(_, _, _, _, _)
modified_loop_unguarded(ids, before_index, after_index, idf, fields) ==
    IF ids = <<>> THEN <<>>
    ELSE LET n == Len(ids)
             sofar == modified_loop_unguarded(SubSeq(ids, 1, n - 1), before_index,
                                              after_index, idf, fields)
             id_val == ids[n]
             changed_fields == changed_fields_of(before_index[id_val], after_index[id_val], fields)
         IN  Append(sofar, modified_entry(idf, id_val, before_index[id_val],
                                          after_index[id_val], changed_fields))

\* the outer loop of compute_diffs over the sorted candidate ids
RECURSIVE modified_loop(_, _, _, _, _)
modified_loop(ids, before_index, after_index, idf, fields) ==
    IF ids = <<>> THEN <<>>
    ELSE LET n == Len(ids)
             sofar == modified_loop(SubSeq(ids, 1, n - 1), before_index, after_index, idf, fields)
             id_val == ids[n]
             changed_fields == changed_fields_of(before_index[id_val], after_index[id_val], fields)
         IN  IF changed_fields # EmptyMap
             THEN Append(sofar, modified_entry(idf, id_val, before_index[id_val],
                                               after_index[id_val], changed_fields))
             ELSE sofar

\* added_ids without the set difference
added_ids_all(before_ids, after_ids) == after_ids

\* removed_ids without the set difference
removed_ids_all(before_ids, after_ids) == before_ids

\* the three id sets of compute_diffs
added_ids_of(before_ids, after_ids) == after_ids \ before_ids

removed_ids_of(before_ids, after_ids) == before_ids \ after_ids

candidate_modified_ids_of(before_ids, after_ids) == before_ids \cap after_ids

\* the orders in which a set can be iterated
IterationOrders(S) ==
    {p \in [1 .. Cardinality(S) -> S] : \A i, j \in 1 .. Cardinality(S) : i # j => p[i] # p[j]}

\* the ids left in iteration order, unsorted
sorted_by_str_unsorted(ids) == IterationOrders(ids)

\* sorted(ids, key=lambda x: str(x)): a stable sort of the set's iteration
\* order, which depends on the hashes of its members; two members with one
\* string form (2 and "2") come out in either order
sorted_by_str(ids) ==
    {p \in IterationOrders(ids) :
        \A i \in 1 .. (Len(p) - 1) : ~StrLess(PyStr(p[i + 1]), PyStr(p[i]))}

\* the outcome of compute_diffs
Diffs(added, removed, modified) ==
    [raised |-> FALSE, exc |-> NoExc,
     added_items |-> PyList(added), removed_items |-> PyList(removed),
     modified_items |-> PyList(modified)]

DiffsRaised(message) ==
    [raised |-> TRUE, exc |-> message,
     added_items |-> None, removed_items |-> None, modified_items |-> None]

\* compute_diffs(before_list, after_list, id_field, fields_to_compare):
\* the results it can return, one for each way the sorts can break ties
compute_diffs(before_list, after_list, idf, fields) ==
    LET before_built == build_index(before_list, idf)
        after_built == build_index(after_list, idf)
        before_index == before_built.index
        after_index == after_built.index
        before_ids == DOMAIN before_index
        after_ids == DOMAIN after_index
        added_ids == added_ids_of(before_ids, after_ids)
        removed_ids == removed_ids_of(before_ids, after_ids)
        candidate_modified_ids == candidate_modified_ids_of(before_ids, after_ids)
    IN  IF before_built.raised THEN {DiffsRaised(before_built.exc)}
        ELSE IF after_built.raised THEN {DiffsRaised(after_built.exc)}
        ELSE {Diffs([i \in DOMAIN a |-> after_index[a[i]]],
                    [i \in DOMAIN r |-> before_index[r[i]]],
                    modified_loop(c, before_index, after_index, idf, fields)) :
                 <<a, r, c>> \in sorted_by_str(added_ids) \X sorted_by_str(removed_ids)
                                   \X sorted_by_str(candidate_modified_ids)}

\* ------------------------------------------------------------------------
\* Request helpers

\* the outcome of parse_request_bytes
Parsed(request, error, exc) ==
    [raised |-> exc # NoExc, exc |-> exc, request |-> request, error |-> error]

\* parse_request_bytes(raw_bytes).  A payload is described by what it is on
\* the wire: "binary" (bytes that are not UTF-8), "text" (UTF-8 that is not
\* JSON) or "json", and then by the document it encodes.
parse_request_bytes(raw_bytes) ==
    IF raw_bytes.wire = "binary" THEN Parsed(None, None, ExcUnicode)
    ELSE IF raw_bytes.wire = "text" THEN Parsed(None, make_error_response(MsgInvalidJson), NoExc)
    ELSE Parsed(raw_bytes.doc, None, NoExc)

\* the outcome of validate_request
Validated(idf, fields, before_list, after_list, error, exc) ==
    [raised |-> exc # NoExc, exc |-> exc, id_field |-> idf, fields_to_compare |-> fields,
     before_list |-> before_list, after_list |-> after_list, error |-> error]

Invalid(message) == Validated(None, None, None, None, make_error_response(message), NoExc)

\* validate_request with the fields_to_compare checks ahead of the id_field
\* check
validate_request_swapped(request) ==
    IF request.k # "dict"
    THEN Validated(None, None, None, None, None,
                   <<39>> \o TypeName(request) \o ExcNoGetPost)
    ELSE
    LET idf == Get(request, S_id_field, PyString(S_id))
        fields == Get(request, S_fields_to_compare, None)
        before_list == Get(request, S_before, None)
        after_list == Get(request, S_after, None)
    IN  IF Get(request, S_request_type, None) # PyString(S_change_diff)
        THEN Invalid(MsgUnsupported)
        ELSE IF ~IsList(fields) \/ fields.l = <<>>
        THEN Invalid(MsgFieldsList)
        ELSE IF \E i \in DOMAIN fields.l : ~IsStr(fields.l[i]) \/ Strip(fields.l[i].s) = <<>>
        THEN Invalid(MsgFieldsEntries)
        ELSE IF ~IsStr(idf) \/ Strip(idf.s) = <<>>
        THEN Invalid(MsgIdField)
        ELSE IF ~IsList(before_list) \/ ~IsList(after_list)
        THEN Invalid(MsgSnapshots)
        ELSE Validated(idf, fields, before_list, after_list, None, NoExc)

\* validate_request without the loop over the entries of fields_to_compare
validate_request_no_entries(request) ==
    IF request.k # "dict"
    THEN Validated(None, None, None, None, None,
                   <<39>> \o TypeName(request) \o ExcNoGetPost)
    ELSE
    LET idf == Get(request, S_id_field, PyString(S_id))
        fields == Get(request, S_fields_to_compare, None)
        before_list == Get(request, S_before, None)
        after_list == Get(request, S_after, None)
    IN  IF Get(request, S_request_type, None) # PyString(S_change_diff)
        THEN Invalid(MsgUnsupported)
        ELSE IF ~IsStr(idf) \/ Strip(idf.s) = <<>>
        THEN Invalid(MsgIdField)
        ELSE IF ~IsList(fields) \/ fields.l = <<>>
        THEN Invalid(MsgFieldsList)
        ELSE IF ~IsList(before_list) \/ ~IsList(after_list)
        THEN Invalid(MsgSnapshots)
        ELSE Validated(idf, fields, before_list, after_list, None, NoExc)

\* validate_request with the id_field check `not id_field` in place of
\* `not id_field.strip()`
validate_request_unstripped(request) ==
    IF request.k # "dict"
    THEN Validated(None, None, None, None, None,
                   <<39>> \o TypeName(request) \o ExcNoGetPost)
    ELSE
    LET idf == Get(request, S_id_field, PyString(S_id))
        fields == Get(request, S_fields_to_compare, None)
        before_list == Get(request, S_before, None)
        after_list == Get(request, S_after, None)
    IN  IF Get(request, S_request_type, None) # PyString(S_change_diff)
        THEN Invalid(MsgUnsupported)
        ELSE IF ~IsStr(idf) \/ idf.s = <<>>
        THEN Invalid(MsgIdField)
        ELSE IF ~IsList(fields) \/ fields.l = <<>>
        THEN Invalid(MsgFieldsList)
        ELSE IF \E i \in DOMAIN fields.l : ~IsStr(fields.l[i]) \/ Strip(fields.l[i].s) = <<>>
        THEN Invalid(MsgFieldsEntries)
        ELSE IF ~IsList(before_list) \/ ~IsList(after_list)
        THEN Invalid(MsgSnapshots)
        ELSE Validated(idf, fields, before_list, after_list, None, NoExc)

\* validate_request(request)
validate_request(request) ==
    IF request.k # "dict"
    THEN Validated(None, None, None, None, None,
                   <<39>> \o TypeName(request) \o ExcNoGetPost)
    ELSE
    LET idf == Get(request, S_id_field, PyString(S_id))
        fields == Get(request, S_fields_to_compare, None)
        before_list == Get(request, S_before, None)
        after_list == Get(request, S_after, None)
    IN  IF Get(request, S_request_type, None) # PyString(S_change_diff)
        THEN Invalid(MsgUnsupported)
        ELSE IF ~IsStr(idf) \/ Strip(idf.s) = <<>>
        THEN Invalid(MsgIdField)
        ELSE IF ~IsList(fields) \/ fields.l = <<>>
        THEN Invalid(MsgFieldsList)
        ELSE IF \E i \in DOMAIN fields.l : ~IsStr(fields.l[i]) \/ Strip(fields.l[i].s) = <<>>
        THEN Invalid(MsgFieldsEntries)
        ELSE IF ~IsList(before_list) \/ ~IsList(after_list)
        THEN Invalid(MsgSnapshots)
        ELSE Validated(idf, fields, before_list, after_list, None, NoExc)

\* ------------------------------------------------------------------------
\* The requests the model sends

\* "a"
S_a == <<97>>
\* "2"
S_2 == <<50>>
\* "x"
S_x == <<120>>
\* " "
S_blank == <<32>>
\* "other"
S_other == <<111, 116, 104, 101, 114>>

\* a key left out of a dict
Absent == [k |-> "absent", n |-> 0, s |-> <<>>, d |-> EmptyMap, l |-> <<>>]

WithKey(map, key, value) == IF value = Absent THEN map ELSE SetItem(map, key, value)

\* identity values: 10 sorts before 2 as a string, and 2 and "2" have one
\* string form
IdValues == {PyInt(2), PyInt(10), PyString(S_2)}

NameValues == {None, PyString(S_a)}

RecordsOver(ids, names) ==
    {PyDict(WithKey(WithKey(EmptyMap, S_id, i), S_name, nm)) : i \in ids, nm \in names}

\* every record over an optional id and an optional name
Records == RecordsOver(IdValues \cup {Absent}, NameValues \cup {Absent})

\* the records of the long snapshots: every identity value with every name
DiffRecords == RecordsOver(IdValues, NameValues)

\* elements of a JSON array that are not objects
NonMappings == {PyInt(5), PyString(S_x), PyString(S_id)}

SeqsUpTo(S, n) == UNION {[1 .. m -> S] : m \in 0 .. n}

Object(request_type, idf, fields, before_list, after_list) ==
    PyDict(WithKey(WithKey(WithKey(WithKey(WithKey(EmptyMap,
        S_request_type, request_type), S_id_field, idf), S_fields_to_compare, fields),
        S_before, before_list), S_after, after_list))

\* well-formed requests over every pair of snapshots of up to MaxLen records
DiffRequests ==
    {Object(PyString(S_change_diff), Absent, PyList(<<PyString(S_name)>>),
            PyList(b), PyList(a)) : b, a \in SeqsUpTo(DiffRecords, MaxLen)}

RequestTypeOptions == {Absent, PyString(S_change_diff), PyString(S_other)}

IdFieldOptions ==
    {Absent, None, PyString(S_name), PyString(S_blank), PyString(<<>>), PyInt(5)}

FieldsOptions ==
    {Absent, PyString(S_name), PyList(<<>>), PyList(<<PyString(S_name)>>),
     PyList(<<PyString(S_year)>>), PyList(<<PyString(S_blank)>>),
     PyList(<<PyString(S_name), PyInt(5)>>), PyList(<<PyString(S_name), PyString(<<>>)>>)}

\* what the before or after member can be
SnapshotOptions ==
    {Absent, PyDict(EmptyMap), PyList(<<>>), PyList(<<PyInt(5)>>),
     PyList(<<PyDict(DictDisplay(<< <<S_id, PyInt(2)>>, <<S_name, PyString(S_a)>> >>))>>)}

\* requests of every shape
ShapeRequests ==
    {Object(rt, idf, fields, b, a) :
        rt \in RequestTypeOptions, idf \in IdFieldOptions, fields \in FieldsOptions,
        b \in SnapshotOptions, a \in SnapshotOptions}

\* well-formed requests over short snapshots (two elements before, one
\* after) of every record, with or without id and name, and of elements
\* that are not records, keyed by id or by name
ShortRequests ==
    {Object(PyString(S_change_diff), idf, PyList(<<PyString(f)>>), PyList(b), PyList(a)) :
        idf \in {Absent, PyString(S_name)}, f \in {S_name, S_year},
        b \in SeqsUpTo(Records \cup NonMappings, 2),
        a \in SeqsUpTo(Records \cup NonMappings, 1)}

\* the keys compute_diffs gives every modified_items entry
EntryKeys == {S_before, S_after, S_changed_fields}

\* records that carry their identity under the key idf, and a name
KeyedRecords(idf) ==
    {PyDict(WithKey(WithKey(EmptyMap, idf, i), S_name, nm)) :
        i \in {PyInt(2), PyInt(10)}, nm \in NameValues}

\* well-formed requests whose id_field is one of the entry keys, over
\* snapshots of at most one record
KeyedRequests ==
    UNION {{Object(PyString(S_change_diff), PyString(idf), PyList(<<PyString(S_name)>>),
                   PyList(b), PyList(a)) : b, a \in SeqsUpTo(KeyedRecords(idf), 1)} :
           idf \in EntryKeys}

\* no payload
NoMessage == [wire |-> "none", doc |-> None]

\* a payload that encodes a JSON document
Json(v) == [wire |-> "json", doc |-> v]

\* the other payloads: bytes that are not UTF-8, text that is not JSON, and
\* JSON documents that are not objects
OtherMessages ==
    {[wire |-> "binary", doc |-> None], [wire |-> "text", doc |-> None],
     Json(PyList(<<>>)), Json(PyInt(5)), Json(None)}

\* no reply yet
NoBytes == <<>>

\* the outcome of handle_message: the bytes it returns, or the exception
\* that leaves it
Returned(bytes) == [raised |-> FALSE, exc |-> NoExc, bytes |-> bytes]

Raised(exc) == [raised |-> TRUE, exc |-> exc, bytes |-> NoBytes]

\* handle_message(raw_bytes): the outcomes it can have
handle_message(raw_bytes) ==
    LET p == parse_request_bytes(raw_bytes)
        v == validate_request(p.request)
    IN  IF p.raised THEN {Raised(p.exc)}
        ELSE IF p.error # None THEN {Returned(serialize_response(p.error))}
        ELSE IF v.raised THEN {Raised(v.exc)}
        ELSE IF v.error # None THEN {Returned(serialize_response(v.error))}
        ELSE {IF r.raised THEN Raised(r.exc)
              ELSE Returned(serialize_response(
                       make_success_response(v.id_field, v.fields_to_compare,
                           r.added_items, r.removed_items, r.modified_items))) :
                 r \in compute_diffs(v.before_list.l, v.after_list.l,
                                     v.id_field.s, v.fields_to_compare.l)}

\* ------------------------------------------------------------------------
\* category-summary.py: the category/tag summary service

\* "category_tag_summary"
S_category_tag_summary == <<99, 97, 116, 101, 103, 111, 114, 121, 95, 116, 97, 103, 95, 115, 117, 109, 109, 97, 114, 121>>
\* "items"
S_items == <<105, 116, 101, 109, 115>>
\* "category"
S_category == <<99, 97, 116, 101, 103, 111, 114, 121>>
\* "tags"
S_tags == <<116, 97, 103, 115>>
\* "category_summary"
S_category_summary == <<99, 97, 116, 101, 103, 111, 114, 121, 95, 115, 117, 109, 109, 97, 114, 121>>
\* "tag_summary"
S_tag_summary == <<116, 97, 103, 95, 115, 117, 109, 109, 97, 114, 121>>
\* "Unsupported request_type. Expected 'category_tag_summary'."
MsgSummaryUnsupported == <<85, 110, 115, 117, 112, 112, 111, 114, 116, 101, 100, 32, 114, 101, 113, 117, 101, 115, 116, 95, 116, 121, 112, 101, 46, 32, 69, 120, 112, 101, 99, 116, 101, 100, 32, 39, 99, 97, 116, 101, 103, 111, 114, 121, 95, 116, 97, 103, 95, 115, 117, 109, 109, 97, 114, 121, 39, 46>>
\* "'items' field must be a list."
MsgItemsList == <<39, 105, 116, 101, 109, 115, 39, 32, 102, 105, 101, 108, 100, 32, 109, 117, 115, 116, 32, 98, 101, 32, 97, 32, 108, 105, 115, 116, 46>>
\* "q"
S_q == <<113>>

\* socket.RCVTIMEO, in milliseconds
RCVTIMEO == 500

\* the number of lines sys.stdin gives
MaxLines == 2

\* str.lower(), for ASCII text
Lower(str) == [i \in DOMAIN str |-> IF str[i] \in 65 .. 90 THEN str[i] + 32 ELSE str[i]]

\* a summary so far, or the exception that ended the loop over the items
Summed(summary) == [raised |-> FALSE, exc |-> NoExc, summary |-> summary]

SummaryRaised(message) == [raised |-> TRUE, exc |-> message, summary |-> EmptyMap]

\* summarize_categories(items): category -> number of items; item.get
\* raises for an item that is no dict
RECURSIVE summarize_categories(_)
summarize_categories(items) ==
    IF items = <<>> THEN Summed(EmptyMap)
    ELSE LET n == Len(items)
             earlier == summarize_categories(SubSeq(items, 1, n - 1))
             item == items[n]
             category == Get(item, S_category, None)
         IN  IF earlier.raised THEN earlier
             ELSE IF item.k # "dict"
             THEN SummaryRaised(<<39>> \o TypeName(item) \o ExcNoGetPost)
             ELSE IF IsStr(category) /\ Strip(category.s) # <<>>
             THEN Summed(SetItem(earlier.summary, category.s,
                                 PyInt(Get(PyDict(earlier.summary), category.s, PyInt(0)).n + 1)))
             ELSE earlier

\* summarize_tags(items): tag -> number of items that have it; the tags
\* of an item count once
RECURSIVE summarize_tags(_)
summarize_tags(items) ==
    IF items = <<>> THEN Summed(EmptyMap)
    ELSE LET n == Len(items)
             earlier == summarize_tags(SubSeq(items, 1, n - 1))
             item == items[n]
             tags == Get(item, S_tags, PyList(<<>>))
             unique_tags_for_item ==
                 {tags.l[i].s : i \in {j \in DOMAIN tags.l :
                                          IsStr(tags.l[j]) /\ Strip(tags.l[j].s) # <<>>}}
         IN  IF earlier.raised THEN earlier
             ELSE IF item.k # "dict"
             THEN SummaryRaised(<<39>> \o TypeName(item) \o ExcNoGetPost)
             ELSE IF ~IsList(tags) THEN earlier
             ELSE Summed([tag \in DOMAIN earlier.summary \cup unique_tags_for_item |->
                            PyInt(Get(PyDict(earlier.summary), tag, PyInt(0)).n
                                  + IF tag \in unique_tags_for_item THEN 1 ELSE 0)])

\* make_success_response(category_summary, tag_summary)
summary_make_success_response(category_summary, tag_summary) ==
    PyDict(DictDisplay(<< <<S_status, PyString(S_ok)>>,
                          <<S_category_summary, PyDict(category_summary)>>,
                          <<S_tag_summary, PyDict(tag_summary)>> >>))

\* the result of validate_request: the items, an error response, or the
\* exception that leaves it
SummaryValidated(items, error, exc) ==
    [raised |-> exc # NoExc, exc |-> exc, items |-> items, error |-> error]

\* validate_request(request)
summary_validate_request(request) ==
    IF request.k # "dict"
    THEN SummaryValidated(None, None, <<39>> \o TypeName(request) \o ExcNoGetPost)
    ELSE IF Get(request, S_request_type, None) # PyString(S_category_tag_summary)
    THEN SummaryValidated(None, make_error_response(MsgSummaryUnsupported), NoExc)
    ELSE IF ~IsList(Get(request, S_items, None))
    THEN SummaryValidated(None, make_error_response(MsgItemsList), NoExc)
    ELSE SummaryValidated(Get(request, S_items, None), None, NoExc)

\* handle_message(raw_bytes): the bytes it returns, or the exception that
\* leaves it
summary_handle_message(raw_bytes) ==
    LET p == parse_request_bytes(raw_bytes)
        v == summary_validate_request(p.request)
        category_summary == summarize_categories(v.items.l)
        tag_summary == summarize_tags(v.items.l)
    IN  IF p.raised THEN Raised(p.exc)
        ELSE IF p.error # None THEN Returned(serialize_response(p.error))
        ELSE IF v.raised THEN Raised(v.exc)
        ELSE IF v.error # None THEN Returned(serialize_response(v.error))
        ELSE IF category_summary.raised THEN Raised(category_summary.exc)
        ELSE IF tag_summary.raised THEN Raised(tag_summary.exc)
        ELSE Returned(serialize_response(
                 summary_make_success_response(category_summary.summary,
                                               tag_summary.summary)))

\* ------------------------------------------------------------------------
\* The service: run_server's loop around handle_message

VARIABLES
    pc,                 \* where the loop is
    raw_request,        \* run_server: the payload received
    request,            \* handle_message: the parsed document
    parse_error,        \* handle_message: the error of parse_request_bytes
    id_field,           \* handle_message: results of validate_request
    fields_to_compare,
    before_list,
    after_list,
    validation_error,
    added_items,        \* handle_message: results of compute_diffs
    removed_items,
    modified_items,
    exception,          \* str(e) of the exception in flight
    response_bytes,     \* run_server: the reply
    received,           \* the payloads socket.recv() has returned, in order
    sent,               \* the replies socket.send() has taken, in order
    socket_open,        \* the socket of create_socket, until socket.close()
    context_open,       \* the context of create_socket, until context.term()
    stop_event,         \* category-summary: the threading.Event
    listener_pc,        \* category-summary: where the stdin listener thread is
    stdin               \* category-summary: the lines sys.stdin has yet to give

vars == <<pc, raw_request, request, parse_error, id_field, fields_to_compare,
          before_list, after_list, validation_error, added_items, removed_items,
          modified_items, exception, response_bytes, received, sent, socket_open,
          context_open, stop_event, listener_pc, stdin>>

validated == <<id_field, fields_to_compare, before_list, after_list, validation_error>>

diffs == <<added_items, removed_items, modified_items>>

serving == <<received, sent, socket_open, context_open>>

quitting == <<stop_event, listener_pc, stdin>>

Init ==
    /\ pc = "recv"
    /\ raw_request = NoMessage
    /\ request = None
    /\ parse_error = None
    /\ id_field = None
    /\ fields_to_compare = None
    /\ before_list = None
    /\ after_list = None
    /\ validation_error = None
    /\ added_items = None
    /\ removed_items = None
    /\ modified_items = None
    /\ exception = NoExc
    /\ response_bytes = NoBytes
    /\ received = <<>>
    /\ sent = <<>>
    /\ socket_open = TRUE
    /\ context_open = TRUE
    /\ stop_event = FALSE
    /\ listener_pc = "none"
    /\ stdin = <<>>

\* raw_request = socket.recv()
Recv ==
    /\ pc = "recv"
    /\ \/ \E v \in DiffRequests : raw_request' = Json(v)
       \/ \E v \in ShapeRequests : raw_request' = Json(v)
       \/ \E v \in ShortRequests : raw_request' = Json(v)
       \/ \E v \in KeyedRequests : raw_request' = Json(v)
       \/ \E m \in OtherMessages : raw_request' = m
    /\ pc' = "parse"
    /\ UNCHANGED <<request, parse_error, validated, diffs, exception, response_bytes>>
    /\ UNCHANGED <<serving, quitting>>

\* handle_message: parse_request_bytes, and the return on a parse error
ParseRequest ==
    /\ pc = "parse"
    /\ LET r == parse_request_bytes(raw_request)
       IN  /\ request' = r.request
           /\ parse_error' = r.error
           /\ exception' = r.exc
           /\ response_bytes' = IF ~r.raised /\ r.error # None
                                THEN serialize_response(r.error) ELSE response_bytes
           /\ pc' = IF r.raised THEN "except"
                    ELSE IF r.error # None THEN "send" ELSE "validate"
    /\ UNCHANGED <<raw_request, validated, diffs>>
    /\ UNCHANGED <<serving, quitting>>

\* handle_message: validate_request, and the return on a validation error
ValidateRequest ==
    /\ pc = "validate"
    /\ LET r == validate_request(request)
       IN  /\ id_field' = r.id_field
           /\ fields_to_compare' = r.fields_to_compare
           /\ before_list' = r.before_list
           /\ after_list' = r.after_list
           /\ validation_error' = r.error
           /\ exception' = r.exc
           /\ response_bytes' = IF ~r.raised /\ r.error # None
                                THEN serialize_response(r.error) ELSE response_bytes
           /\ pc' = IF r.raised THEN "except"
                    ELSE IF r.error # None THEN "send" ELSE "compute"
    /\ UNCHANGED <<raw_request, request, parse_error, diffs>>
    /\ UNCHANGED <<serving, quitting>>

\* handle_message: the call of compute_diffs
ComputeDiffs ==
    /\ pc = "compute"
    /\ \E r \in compute_diffs(before_list.l, after_list.l, id_field.s, fields_to_compare.l) :
           /\ added_items' = r.added_items
           /\ removed_items' = r.removed_items
           /\ modified_items' = r.modified_items
           /\ exception' = r.exc
           /\ pc' = IF r.raised THEN "except" ELSE "respond"
    /\ UNCHANGED <<raw_request, request, parse_error, validated, response_bytes>>
    /\ UNCHANGED <<serving, quitting>>

\* handle_message: make_success_response and serialize_response
Respond ==
    /\ pc = "respond"
    /\ response_bytes' = serialize_response(
           make_success_response(id_field, fields_to_compare,
                                 added_items, removed_items, modified_items))
    /\ pc' = "send"
    /\ UNCHANGED <<raw_request, request, parse_error, validated, diffs, exception>>
    /\ UNCHANGED <<serving, quitting>>

\* run_server: except Exception as e
HandleException ==
    /\ pc = "except"
    /\ response_bytes' = serialize_response(make_error_response(MsgInternalPrefix \o exception))
    /\ pc' = "send"
    /\ UNCHANGED <<raw_request, request, parse_error, validated, diffs, exception>>
    /\ UNCHANGED <<serving, quitting>>

\* socket.send(response_bytes), and back to the top of the loop
Send ==
    /\ pc = "send"
    /\ pc' = "recv"
    /\ raw_request' = NoMessage
    /\ request' = None
    /\ parse_error' = None
    /\ id_field' = None
    /\ fields_to_compare' = None
    /\ before_list' = None
    /\ after_list' = None
    /\ validation_error' = None
    /\ added_items' = None
    /\ removed_items' = None
    /\ modified_items' = None
    /\ exception' = NoExc
    /\ response_bytes' = NoBytes
    /\ UNCHANGED <<serving, quitting>>

Next ==
    \/ Recv
    \/ ParseRequest
    \/ ValidateRequest
    \/ ComputeDiffs
    \/ Respond
    \/ HandleException
    \/ Send

Spec == Init /\ [][Next]_vars

\* ------------------------------------------------------------------------
\* run_server with its exchanges on record, KeyboardInterrupt and the
\* finally clause

\* the number of requests a run receives
MaxRequests == 2

\* requests with one record after, and before it nothing, the number 5, or
\* the record under another name
LoopRequests ==
    {Object(PyString(S_change_diff), Absent, PyList(<<PyString(S_name)>>), PyList(b),
            PyList(<<PyDict(DictDisplay(<< <<S_id, PyInt(2)>>, <<S_name, None>> >>))>>)) :
        b \in SeqsUpTo({PyDict(DictDisplay(<< <<S_id, PyInt(2)>>, <<S_name, PyString(S_a)>> >>)),
                        PyInt(5)}, 1)}

\* the payloads the clients of a run send: bytes that are no text, text
\* that is no JSON, the JSON array [], and the requests
LoopMessages ==
    {[wire |-> "binary", doc |-> None], [wire |-> "text", doc |-> None],
     Json(PyList(<<>>))} \cup {Json(v) : v \in LoopRequests}

\* raw_request = socket.recv(): blocks until a client sends a request
ServeRecv ==
    /\ pc = "recv"
    /\ Len(received) < MaxRequests
    /\ \E m \in LoopMessages :
           /\ raw_request' = m
           /\ received' = Append(received, m)
    /\ pc' = "parse"
    /\ UNCHANGED <<request, parse_error, validated, diffs, exception, response_bytes>>
    /\ UNCHANGED <<sent, socket_open, context_open, quitting>>

\* ServeSend that sends nothing
ServeSend_silent ==
    /\ pc = "send"
    /\ pc' = "recv"
    /\ raw_request' = NoMessage
    /\ request' = None
    /\ parse_error' = None
    /\ id_field' = None
    /\ fields_to_compare' = None
    /\ before_list' = None
    /\ after_list' = None
    /\ validation_error' = None
    /\ added_items' = None
    /\ removed_items' = None
    /\ modified_items' = None
    /\ exception' = NoExc
    /\ response_bytes' = NoBytes
    /\ UNCHANGED <<sent, received, socket_open, context_open, quitting>>

\* socket.send(response_bytes), and back to the top of the loop
ServeSend ==
    /\ pc = "send"
    /\ sent' = Append(sent, response_bytes)
    /\ pc' = "recv"
    /\ raw_request' = NoMessage
    /\ request' = None
    /\ parse_error' = None
    /\ id_field' = None
    /\ fields_to_compare' = None
    /\ before_list' = None
    /\ after_list' = None
    /\ validation_error' = None
    /\ added_items' = None
    /\ removed_items' = None
    /\ modified_items' = None
    /\ exception' = NoExc
    /\ response_bytes' = NoBytes
    /\ UNCHANGED <<received, socket_open, context_open, quitting>>

\* KeyboardInterrupt, raised in the main thread anywhere in the loop, the
\* blocking socket.recv() included: control is in `except KeyboardInterrupt`
Interrupt ==
    /\ pc \in {"recv", "parse", "validate", "compute", "respond", "except", "send"}
    /\ pc' = "interrupt"
    /\ UNCHANGED <<raw_request, request, parse_error, validated, diffs, exception,
                   response_bytes, serving, quitting>>

\* the finally clause without context.term()
Finally_unterminated ==
    /\ pc = "interrupt"
    /\ socket_open' = FALSE
    /\ pc' = "closed"
    /\ UNCHANGED <<raw_request, request, parse_error, validated, diffs, exception,
                   response_bytes, received, sent, context_open, quitting>>

\* finally: socket.close(); context.term()
Finally ==
    /\ pc = "interrupt"
    /\ socket_open' = FALSE
    /\ context_open' = FALSE
    /\ pc' = "closed"
    /\ UNCHANGED <<raw_request, request, parse_error, validated, diffs, exception,
                   response_bytes, received, sent, quitting>>

\* the change of pc that is the step Respond
RespondStep == pc = "respond" /\ pc' = "send"

ServeNext ==
    \/ ServeRecv
    \/ ParseRequest
    \/ ValidateRequest
    \/ ComputeDiffs
    \/ Respond
    \/ HandleException
    \/ ServeSend
    \/ Interrupt
    \/ Finally

\* the process keeps running: a step of the handler, the send and the
\* finally clause are taken when they are due.  Whether a client sends a
\* request, and whether a KeyboardInterrupt comes, is up to the environment.
ServeSpec ==
    /\ Init
    /\ [][ServeNext]_vars
    /\ WF_vars(ParseRequest)
    /\ WF_vars(ValidateRequest)
    /\ WF_vars(ComputeDiffs)
    /\ WF_pc(RespondStep)
    /\ WF_vars(HandleException)
    /\ WF_vars(ServeSend)
    /\ WF_vars(Finally)

\* ------------------------------------------------------------------------
\* category-summary.py: run_server and the stdin listener thread

\* request objects of the summary service
SummaryObject(request_type, items) ==
    PyDict(WithKey(WithKey(EmptyMap, S_request_type, request_type), S_items, items))

\* elements of items: a record with a category and a tag given twice, and
\* the number 5
SummaryItems ==
    {PyDict(DictDisplay(<< <<S_category, PyString(S_a)>>,
                           <<S_tags, PyList(<<PyString(S_a), PyString(S_a)>>)>> >>)),
     PyInt(5)}

\* the payloads the clients of the summary service send
SummaryMessages ==
    {Json(SummaryObject(PyString(S_other), Absent))}
    \cup {Json(SummaryObject(PyString(S_category_tag_summary), PyList(items))) :
             items \in SeqsUpTo(SummaryItems, 1)}

\* the lines a user types: " Q\n" and "x\n"
Lines == {<<32, 81, 10>>, <<120, 10>>}

\* the variables of diff_tracker's handle_message, which this service
\* does not have
handler == <<request, parse_error, validated, diffs>>

\* run_server up to the loop: the socket is bound, RCVTIMEO set, the
\* listener thread started
SummaryInit ==
    /\ pc = "loop"
    /\ raw_request = NoMessage
    /\ request = None
    /\ parse_error = None
    /\ id_field = None
    /\ fields_to_compare = None
    /\ before_list = None
    /\ after_list = None
    /\ validation_error = None
    /\ added_items = None
    /\ removed_items = None
    /\ modified_items = None
    /\ exception = NoExc
    /\ response_bytes = NoBytes
    /\ received = <<>>
    /\ sent = <<>>
    /\ socket_open = TRUE
    /\ context_open = TRUE
    /\ stop_event = FALSE
    /\ listener_pc = "read"
    /\ stdin \in SeqsUpTo(Lines, MaxLines)

\* _wait_for_q: one pass of `for line in sys.stdin`
ListenerRead ==
    /\ listener_pc = "read"
    /\ pc # "closed"
    /\ stdin # <<>>
    /\ stdin' = Tail(stdin)
    /\ IF Lower(Strip(Head(stdin))) = S_q
       THEN stop_event' = TRUE /\ listener_pc' = "done"
       ELSE UNCHANGED <<stop_event, listener_pc>>
    /\ UNCHANGED <<pc, raw_request, exception, response_bytes, handler, serving>>

\* _wait_for_q: sys.stdin is at its end
ListenerEof ==
    /\ listener_pc = "read"
    /\ pc # "closed"
    /\ stdin = <<>>
    /\ listener_pc' = "done"
    /\ UNCHANGED <<pc, raw_request, exception, response_bytes, handler, serving,
                   stop_event, stdin>>

\* the loop test that does not look at stop_event
SummaryLoopTest_blind ==
    /\ pc = "loop"
    /\ pc' = "recv"
    /\ UNCHANGED <<raw_request, exception, response_bytes, handler, serving, quitting>>

\* while not stop_event.is_set()
SummaryLoopTest ==
    /\ pc = "loop"
    /\ pc' = IF stop_event THEN "finally" ELSE "recv"
    /\ UNCHANGED <<raw_request, exception, response_bytes, handler, serving, quitting>>

\* raw_request = socket.recv(), a request being there
SummaryRecv ==
    /\ pc = "recv"
    /\ Len(received) < MaxRequests
    /\ \E m \in SummaryMessages :
           /\ raw_request' = m
           /\ received' = Append(received, m)
    /\ pc' = "handle"
    /\ UNCHANGED <<exception, response_bytes, handler, sent, socket_open, context_open,
                   quitting>>

\* socket.recv() raises zmq.Again after RCVTIMEO milliseconds: continue
SummaryTimeout ==
    /\ pc = "recv"
    /\ RCVTIMEO >= 0
    /\ pc' = "loop"
    /\ UNCHANGED <<raw_request, exception, response_bytes, handler, serving, quitting>>

\* response_bytes = handle_message(raw_request)
SummaryHandle ==
    /\ pc = "handle"
    /\ LET o == summary_handle_message(raw_request)
       IN  /\ exception' = o.exc
           /\ response_bytes' = o.bytes
           /\ pc' = IF o.raised THEN "except" ELSE "send"
    /\ UNCHANGED <<raw_request, handler, serving, quitting>>

\* socket.send(response_bytes), and back to the loop test
SummarySend ==
    /\ pc = "send"
    /\ sent' = Append(sent, response_bytes)
    /\ pc' = "loop"
    /\ raw_request' = NoMessage
    /\ exception' = NoExc
    /\ response_bytes' = NoBytes
    /\ UNCHANGED <<handler, received, socket_open, context_open, quitting>>

\* except Exception as e: the error response is sent, and back to the
\* loop test
SummaryExcept ==
    /\ pc = "except"
    /\ sent' = Append(sent,
           serialize_response(make_error_response(MsgInternalPrefix \o exception)))
    /\ pc' = "loop"
    /\ raw_request' = NoMessage
    /\ exception' = NoExc
    /\ response_bytes' = NoBytes
    /\ UNCHANGED <<handler, received, socket_open, context_open, quitting>>

\* KeyboardInterrupt, raised in the main thread anywhere in the loop:
\* control is in `except KeyboardInterrupt`
SummaryInterrupt ==
    /\ pc \in {"loop", "recv", "handle", "send", "except"}
    /\ pc' = "interrupt"
    /\ UNCHANGED <<raw_request, exception, response_bytes, handler, serving, quitting>>

\* finally: socket.close(); context.term()
SummaryFinally ==
    /\ pc \in {"finally", "interrupt"}
    /\ socket_open' = FALSE
    /\ context_open' = FALSE
    /\ pc' = "closed"
    /\ UNCHANGED <<raw_request, exception, response_bytes, handler, received, sent,
                   quitting>>

\* the change of pc that is the step SummaryHandle
SummaryHandleStep == pc = "handle" /\ pc' \in {"send", "except"}

SummaryNext ==
    \/ ListenerRead
    \/ ListenerEof
    \/ SummaryLoopTest
    \/ SummaryRecv
    \/ SummaryTimeout
    \/ SummaryHandle
    \/ SummarySend
    \/ SummaryExcept
    \/ SummaryInterrupt
    \/ SummaryFinally

\* the main thread keeps running, and socket.recv() returns or times out;
\* the listener thread keeps running.  Whether a client sends a request,
\* and whether a KeyboardInterrupt comes, is up to the environment.
SummarySpec ==
    /\ SummaryInit
    /\ [][SummaryNext]_vars
    /\ WF_vars(SummaryLoopTest)
    /\ WF_vars(SummaryRecv \/ SummaryTimeout)
    /\ WF_pc(SummaryHandleStep)
    /\ WF_vars(SummarySend)
    /\ WF_vars(SummaryExcept)
    /\ WF_vars(SummaryFinally)
    /\ WF_vars(ListenerRead \/ ListenerEof)

\* ------------------------------------------------------------------------
\* Vocabulary of the properties

\* compute_diffs has returned its three lists
Computed == pc \in {"respond", "send"} /\ added_items # None

\* the positions of a snapshot that hold a record with the identity field
Carriers(list) ==
    {i \in DOMAIN list : list[i].k = "dict" /\ id_field.s \in DOMAIN list[i].d}

\* the identity values of a snapshot
IdentityValues(list) == {list[i].d[id_field.s] : i \in Carriers(list)}

\* the record a snapshot's index holds for an identity value: the last one
\* of the snapshot that carries it
IndexedRecord(list, v) ==
    LET at == {i \in Carriers(list) : list[i].d[id_field.s] = v}
    IN  list[CHOOSE i \in at : \A j \in at : j <= i]

IdentityOf(record) == record.d[id_field.s]

\* a modified_items entry's identity value, read from its before record
EntryIdentity(entry) == IdentityOf(entry.d[S_before])

AddedAt(v) == {i \in DOMAIN added_items.l : IdentityOf(added_items.l[i]) = v}

RemovedAt(v) == {i \in DOMAIN removed_items.l : IdentityOf(removed_items.l[i]) = v}

ModifiedAt(v) == {i \in DOMAIN modified_items.l : EntryIdentity(modified_items.l[i]) = v}

BeforeIds == IdentityValues(before_list.l)

AfterIds == IdentityValues(after_list.l)

\* a record's value of a field, null when the record has no such field
ValueOrNull(record, field) == IF field \in DOMAIN record.d THEN record.d[field] ELSE None

\* the names in fields_to_compare
TrackedFields == {fields_to_compare.l[i].s : i \in DOMAIN fields_to_compare.l}

\* the tracked fields in which two records differ
DifferingFields(before_record, after_record) ==
    {f \in TrackedFields : ValueOrNull(before_record, f) # ValueOrNull(after_record, f)}

\* ------------------------------------------------------------------------
\* Properties of compute_diffs

\* C1: every identity value indexed from before or after is in at most one
\* of added_items, removed_items and modified_items, at most once there
\* (or in none: unchanged), and the three lists hold no other identity.
C1_Partition ==
    Computed =>
        /\ \A v \in BeforeIds \cup AfterIds :
              Cardinality(AddedAt(v)) + Cardinality(RemovedAt(v))
                  + Cardinality(ModifiedAt(v)) <= 1
        /\ \A i \in DOMAIN added_items.l :
              IdentityOf(added_items.l[i]) \in BeforeIds \cup AfterIds
        /\ \A i \in DOMAIN removed_items.l :
              IdentityOf(removed_items.l[i]) \in BeforeIds \cup AfterIds
        /\ \A i \in DOMAIN modified_items.l :
              EntryIdentity(modified_items.l[i]) \in BeforeIds \cup AfterIds

\* a diff with an added, a removed and a modified identity
C1_Witness ==
    /\ Computed
    /\ added_items.l # <<>>
    /\ removed_items.l # <<>>
    /\ modified_items.l # <<>>

\* C2: added_items is exactly the indexed after-records whose identity is
\* no key of the before index, removed_items exactly the indexed
\* before-records whose identity is no key of the after index, each once
\* and with all its fields.
C2_AddedRemoved ==
    Computed =>
        /\ Range(added_items.l) = {IndexedRecord(after_list.l, v) : v \in AfterIds \ BeforeIds}
        /\ Len(added_items.l) = Cardinality(AfterIds \ BeforeIds)
        /\ Range(removed_items.l) = {IndexedRecord(before_list.l, v) : v \in BeforeIds \ AfterIds}
        /\ Len(removed_items.l) = Cardinality(BeforeIds \ AfterIds)

\* an added record whose identity two after-records carry, next to a
\* removed one
C2_Witness ==
    /\ Computed
    /\ Len(added_items.l) = 1
    /\ removed_items.l # <<>>
    /\ Len(after_list.l) = 2
    /\ Carriers(after_list.l) = {1, 2}
    /\ IdentityOf(after_list.l[1]) = IdentityOf(after_list.l[2])
    /\ after_list.l[1] # after_list.l[2]

\* C3: an identity in both indexes has a modified_items entry exactly when
\* a tracked field differs between its two records; when none differs it is
\* in none of the three lists, and two identical snapshots give three empty
\* lists.
C3_ModifiedIff ==
    Computed =>
        /\ \A v \in BeforeIds \cap AfterIds :
              LET differs == DifferingFields(IndexedRecord(before_list.l, v),
                                             IndexedRecord(after_list.l, v)) # {}
              IN  /\ (ModifiedAt(v) # {}) <=> differs
                  /\ ~differs => AddedAt(v) = {} /\ RemovedAt(v) = {} /\ ModifiedAt(v) = {}
        /\ before_list = after_list =>
              added_items.l = <<>> /\ removed_items.l = <<>> /\ modified_items.l = <<>>

\* an identity in both snapshots whose records differ only in a field that
\* is not tracked, and so has no entry
C3_Witness ==
    /\ Computed
    /\ modified_items.l = <<>>
    /\ \E v \in BeforeIds \cap AfterIds :
          IndexedRecord(before_list.l, v) # IndexedRecord(after_list.l, v)

\* C4: the keys of an entry's changed_fields are exactly the tracked fields
\* whose values differ, a missing field counting as null; each key maps to
\* {before: the before record's value, after: the after record's value}.
C4_ChangedFields ==
    Computed =>
        \A i \in DOMAIN modified_items.l :
            LET entry == modified_items.l[i].d
                changed == entry[S_changed_fields].d
            IN  /\ DOMAIN changed = DifferingFields(entry[S_before], entry[S_after])
                /\ \A f \in DOMAIN changed :
                      changed[f] = PyDict(DictDisplay(
                          << <<S_before, ValueOrNull(entry[S_before], f)>>,
                             <<S_after, ValueOrNull(entry[S_after], f)>> >>))

\* an entry whose changed field is missing from the before record and is
\* reported as null
C4_Witness ==
    /\ Computed
    /\ \E i \in DOMAIN modified_items.l :
          LET entry == modified_items.l[i].d
          IN  /\ S_name \notin DOMAIN entry[S_before].d
              /\ S_name \in DOMAIN entry[S_changed_fields].d
              /\ entry[S_changed_fields].d[S_name].d[S_before] = None

\* a candidate whose tracked field is missing on one side and null on the
\* other: no entry
C4_WitnessNull ==
    /\ Computed
    /\ modified_items.l = <<>>
    /\ \E v \in BeforeIds \cap AfterIds :
          /\ S_name \in TrackedFields
          /\ S_name \notin DOMAIN IndexedRecord(before_list.l, v).d
          /\ S_name \in DOMAIN IndexedRecord(after_list.l, v).d

\* a list of records is in ascending order of str(identity)
AscendingByStr(ids) ==
    \A i \in 1 .. (Len(ids) - 1) : ~StrLess(PyStr(ids[i + 1]), PyStr(ids[i]))

\* C5: added_items, removed_items and modified_items are each sorted
\* ascending by the string form of the identity value.
C5_SortedByStr ==
    Computed =>
        /\ AscendingByStr([i \in DOMAIN added_items.l |-> IdentityOf(added_items.l[i])])
        /\ AscendingByStr([i \in DOMAIN removed_items.l |-> IdentityOf(removed_items.l[i])])
        /\ AscendingByStr([i \in DOMAIN modified_items.l |->
                              EntryIdentity(modified_items.l[i])])

\* the number 10 before the number 2 in modified_items, from snapshots that
\* list 2 first
C5_Witness ==
    /\ Computed
    /\ Len(modified_items.l) = 2
    /\ EntryIdentity(modified_items.l[1]) = PyInt(10)
    /\ EntryIdentity(modified_items.l[2]) = PyInt(2)
    /\ IdentityOf(before_list.l[1]) = PyInt(2)
    /\ IdentityOf(after_list.l[1]) = PyInt(2)

\* ------------------------------------------------------------------------
\* Properties of handle_message

\* the steps of the loop and handle_message as one function agree
StepsAgree ==
    pc = "send" =>
        (IF exception = NoExc THEN Returned(response_bytes) ELSE Raised(exception))
            \in handle_message(raw_request)

\* the same elements in every order
Reorderings(seq) ==
    {[i \in DOMAIN seq |-> seq[p[i]]] : p \in IterationOrders(DOMAIN seq)}

\* the payloads that differ from the one received only in the order of the
\* records inside before and inside after
ReorderedRequests ==
    {Json(PyDict(SetItem(SetItem(request.d, S_before, PyList(b)), S_after, PyList(a)))) :
        b \in Reorderings(before_list.l), a \in Reorderings(after_list.l)}

\* handle_message has returned the response of a request that passed
\* validation
Answered ==
    /\ pc = "send"
    /\ exception = NoExc
    /\ parse_error = None
    /\ validation_error = None

DistinctIdentities(list) ==
    \A i, j \in Carriers(list) :
        i # j => /\ IdentityOf(list[i]) # IdentityOf(list[j])
                 /\ PyStr(IdentityOf(list[i])) # PyStr(IdentityOf(list[j]))

OutputRecords ==
    Range(added_items.l) \cup Range(removed_items.l)
    \cup {modified_items.l[i].d[S_before] : i \in DOMAIN modified_items.l}
    \cup {modified_items.l[i].d[S_after] : i \in DOMAIN modified_items.l}

\* one record has the fields of another, but for the identity field
SameRemainingFields(with_id, without_id) ==
    /\ DOMAIN with_id.d \ {id_field.s} = DOMAIN without_id.d
    /\ \A f \in DOMAIN without_id.d : with_id.d[f] = without_id.d[f]

\* C7: a record without the id_field key is skipped without an error (an
\* exception leaves compute_diffs only for an element that is no record)
\* and is in none of the lists, nor the before or after of an entry.
C7_MissingIdentitySkipped ==
    /\ Computed => \A r \in OutputRecords : id_field.s \in DOMAIN r.d
    /\ (pc = "except" /\ IsList(before_list)) =>
          \E item \in Range(before_list.l) \cup Range(after_list.l) : item.k # "dict"

\* a record without identity in before, and in after a record with the same
\* remaining fields, which is added
C7_Witness ==
    /\ Computed
    /\ \E i \in DOMAIN before_list.l, j \in DOMAIN added_items.l :
          /\ before_list.l[i].k = "dict"
          /\ id_field.s \notin DOMAIN before_list.l[i].d
          /\ before_list.l[i].d # EmptyMap
          /\ SameRemainingFields(added_items.l[j], before_list.l[i])

\* ------------------------------------------------------------------------
\* Properties of validate_request

\* a member of a JSON object, Absent when it has no such member
Member(doc, key) == IF key \in DOMAIN doc.d THEN doc.d[key] ELSE Absent

\* a string with a character that is not whitespace
NonBlankString(v) == v.k = "str" /\ \E i \in DOMAIN v.s : ~IsSpace(v.s[i])

\* a string of at least one character
NonEmptyString(v) == v.k = "str" /\ v.s # <<>>

FailsRequestType(doc) == Member(doc, S_request_type) # PyString(S_change_diff)

FailsIdField(doc) ==
    Member(doc, S_id_field) # Absent /\ ~NonBlankString(Member(doc, S_id_field))

FailsFields(doc) ==
    LET fields == Member(doc, S_fields_to_compare)
    IN  \/ fields = Absent
        \/ fields.k # "list"
        \/ fields.l = <<>>
        \/ \E i \in DOMAIN fields.l : ~NonBlankString(fields.l[i])

\* the condition of C9 as stated: an entry that is not a non-empty string
FailsFieldsAsStated(doc) ==
    LET fields == Member(doc, S_fields_to_compare)
    IN  \/ fields = Absent
        \/ fields.k # "list"
        \/ fields.l = <<>>
        \/ \E i \in DOMAIN fields.l : ~NonEmptyString(fields.l[i])

FailsSnapshots(doc) ==
    \/ Member(doc, S_before).k # "list"
    \/ Member(doc, S_after).k # "list"

\* the messages of the first check that fails, in the order request_type,
\* id_field, fields_to_compare, before/after
FirstFailure(doc) ==
    IF FailsRequestType(doc) THEN {MsgUnsupported}
    ELSE IF FailsIdField(doc) THEN {MsgIdField}
    ELSE IF FailsFields(doc) THEN {MsgFieldsList, MsgFieldsEntries}
    ELSE IF FailsSnapshots(doc) THEN {MsgSnapshots}
    ELSE {}

\* validate_request has returned for a request that is a JSON object
AfterValidation ==
    /\ pc \in {"compute", "respond", "except", "send"}
    /\ request.k = "dict"

\* {"error":"<message>","status":"error"}
ErrorBytes(message) ==
    <<123>> \o JsonString(S_error) \o <<58>> \o JsonString(message) \o <<44>>
        \o JsonString(S_status) \o <<58>> \o JsonString(S_error) \o <<125>>

\* handle_message answers with the error response of a message and
\* compute_diffs has not run
RejectedWith(messages) ==
    /\ pc = "send"
    /\ validation_error.k = "dict"
    /\ DOMAIN validation_error.d = {S_status, S_error}
    /\ validation_error.d[S_status] = PyString(S_error)
    /\ validation_error.d[S_error].k = "str"
    /\ validation_error.d[S_error].s \in messages
    /\ response_bytes = ErrorBytes(validation_error.d[S_error].s)
    /\ added_items = None
    /\ removed_items = None
    /\ modified_items = None

\* C8: the checks run in the order request_type, id_field,
\* fields_to_compare, before/after and the first that fails decides the
\* error; then the reply is that error response alone and compute_diffs is
\* not invoked.
C8_FirstFailureOnly ==
    AfterValidation =>
        IF FirstFailure(request) = {}
        THEN validation_error = None
        ELSE RejectedWith(FirstFailure(request))

\* a request that fails the id_field, the fields_to_compare and the
\* before/after check, answered with the id_field error
C8_Witness ==
    /\ AfterValidation
    /\ ~FailsRequestType(request)
    /\ FailsIdField(request)
    /\ FailsFields(request)
    /\ FailsSnapshots(request)
    /\ RejectedWith({MsgIdField})

\* C9 as stated: with request_type and id_field valid, the request is
\* rejected for its fields_to_compare exactly when that is missing, no
\* list, empty, or has an entry that is not a non-empty string.
C9_FieldsRejectedIffAsStated ==
    (AfterValidation /\ ~FailsRequestType(request) /\ ~FailsIdField(request)) =>
        (RejectedWith({MsgFieldsList, MsgFieldsEntries}) <=> FailsFieldsAsStated(request))

\* C9, amended: ... or has an entry that is not a string with a character
\* other than whitespace; fields_to_compare: [] is rejected and no diff is
\* computed.
C9_FieldsRejectedIff ==
    (AfterValidation /\ ~FailsRequestType(request) /\ ~FailsIdField(request)) =>
        /\ RejectedWith({MsgFieldsList, MsgFieldsEntries}) <=> FailsFields(request)
        /\ Member(request, S_fields_to_compare) = PyList(<<>>) =>
              RejectedWith({MsgFieldsList})

\* fields_to_compare: [" "] rejected
C9_Witness ==
    /\ AfterValidation
    /\ Member(request, S_fields_to_compare) = PyList(<<PyString(S_blank)>>)
    /\ RejectedWith({MsgFieldsEntries})

\* fields_to_compare: [] rejected
C9_WitnessEmpty ==
    /\ AfterValidation
    /\ Member(request, S_fields_to_compare) = PyList(<<>>)
    /\ RejectedWith({MsgFieldsList})

\* before or after is missing, is no array, or has an element that is no
\* object
BadSnapshotShape(doc) ==
    \/ FailsSnapshots(doc)
    \/ \E item \in Range(Member(doc, S_before).l) \cup Range(Member(doc, S_after).l) :
          item.k # "dict"

\* C10: a request that passes the first three checks and whose before or
\* after is missing, is no array or has an element that is no record is
\* rejected with the snapshot error, before any indexing runs.
C10_SnapshotShapeRejected ==
    (/\ AfterValidation
     /\ ~FailsRequestType(request)
     /\ ~FailsIdField(request)
     /\ ~FailsFields(request)
     /\ BadSnapshotShape(request)) => RejectedWith({MsgSnapshots})

\* the payload received is not a JSON document: its bytes are no UTF-8
\* text, or the text does not parse
NotJson == raw_request.wire \in {"binary", "text"}

\* C11: for every payload that is not a JSON document (bytes that do not
\* decode as text, or text that does not parse) handle_message returns the
\* error response 'Invalid JSON in request body.' and neither validates
\* nor reconciles.
C11_MalformedInput ==
    (NotJson /\ pc # "parse") =>
        /\ pc = "send"
        /\ exception = NoExc
        /\ response_bytes = ErrorBytes(MsgInvalidJson)
        /\ request = None
        /\ validation_error = None
        /\ id_field = None
        /\ added_items = None

\* id_field is given and is not a string of at least one character
FailsIdFieldAsStated(doc) ==
    Member(doc, S_id_field) # Absent /\ ~NonEmptyString(Member(doc, S_id_field))

\* the identity field name the request asks for: "id" when id_field is
\* left out
RequestedIdField(doc) ==
    IF Member(doc, S_id_field) = Absent THEN S_id ELSE Member(doc, S_id_field).s

\* the reply has the member "id_field":"<name>"
EchoesIdField(bytes, name) ==
    IsSubstring(JsonString(S_id_field) \o <<58>> \o JsonString(name), bytes)

\* validation accepted the request with the identity field name it asks
\* for; the records reported carry that key, and the success response
\* echoes the name
UsesRequestedIdField ==
    /\ validation_error = None =>
          id_field = PyString(RequestedIdField(request))
    /\ Computed =>
          \A r \in OutputRecords : RequestedIdField(request) \in DOMAIN r.d
    /\ Answered => EchoesIdField(response_bytes, RequestedIdField(request))

\* C12 as stated: with a valid request_type, id_field left out means "id";
\* an id_field that is given is rejected exactly when it is not a
\* non-empty string, and otherwise it is used and echoed.
C12_IdFieldAsStated ==
    (AfterValidation /\ ~FailsRequestType(request)) =>
        /\ RejectedWith({MsgIdField}) <=> FailsIdFieldAsStated(request)
        /\ ~FailsIdFieldAsStated(request) => UsesRequestedIdField

\* C12, amended: ... is rejected exactly when it is not a string with a
\* character other than whitespace, and otherwise that string, as given, is
\* the identity field and is echoed as id_field in the success response.
C12_IdField ==
    (AfterValidation /\ ~FailsRequestType(request)) =>
        /\ RejectedWith({MsgIdField}) <=> FailsIdField(request)
        /\ ~FailsIdField(request) => UsesRequestedIdField

\* id_field: "name" given, a record added under its name, and the name
\* echoed
C12_Witness ==
    /\ Answered
    /\ Member(request, S_id_field) = PyString(S_name)
    /\ id_field = PyString(S_name)
    /\ added_items.l # <<>>
    /\ EchoesIdField(response_bytes, S_name)

\* id_field left out: "id" is used and echoed
C12_WitnessDefault ==
    /\ Answered
    /\ Member(request, S_id_field) = Absent
    /\ id_field = PyString(S_id)
    /\ removed_items.l # <<>>
    /\ EchoesIdField(response_bytes, S_id)

\* id_field: " " rejected
C12_WitnessBlank ==
    /\ AfterValidation
    /\ Member(request, S_id_field) = PyString(S_blank)
    /\ RejectedWith({MsgIdField})

\* C13: for every id_field validation accepts, each modified_items entry
\* has four members, the identity value under the key id_field names, the
\* before record under 'before', the after record under 'after' and the
\* changes under 'changed_fields', and each can be read back.
C13_EntryMembers ==
    Computed =>
        \A i \in DOMAIN modified_items.l :
            LET entry == modified_items.l[i]
            IN  /\ entry.k = "dict"
                /\ DOMAIN entry.d = {id_field.s} \cup EntryKeys
                /\ Cardinality(DOMAIN entry.d) = 4
                /\ entry.d[S_before] \in Range(before_list.l)
                /\ entry.d[S_after] \in Range(after_list.l)
                /\ entry.d[S_changed_fields].k = "dict"
                /\ entry.d[S_changed_fields].d # EmptyMap
                /\ entry.d[id_field.s] = IdentityOf(entry.d[S_before])
                /\ entry.d[id_field.s] = IdentityOf(entry.d[S_after])

\* the positions of a snapshot that carry the identity value v
CarriersOf(list, v) == {i \in Carriers(list) : IdentityOf(list[i]) = v}

\* the record at the last position of a snapshot that carries v
LastOccurrence(list, v) ==
    list[CHOOSE i \in CarriersOf(list, v) : \A j \in CarriersOf(list, v) : j <= i]

\* a snapshot without the records that a later record of the same identity
\* value follows
WithoutEarlierOccurrences(list) ==
    LET kept == {i \in DOMAIN list :
                    i \in Carriers(list) =>
                        \A j \in CarriersOf(list, IdentityOf(list[i])) : j <= i}
        nth(n) == CHOOSE i \in kept : Cardinality({j \in kept : j <= i}) = n
    IN  [n \in 1 .. Cardinality(kept) |-> list[nth(n)]]

\* C15: when several records of one snapshot carry one identity value,
\* only the last in sequence order counts: it decides added and removed, it
\* is the record reported and compared, and the earlier ones change
\* nothing of the result.
C15_LastOccurrenceWins ==
    Computed =>
        /\ \A i \in DOMAIN added_items.l :
              LET v == IdentityOf(added_items.l[i])
              IN  /\ CarriersOf(before_list.l, v) = {}
                  /\ added_items.l[i] = LastOccurrence(after_list.l, v)
        /\ \A i \in DOMAIN removed_items.l :
              LET v == IdentityOf(removed_items.l[i])
              IN  /\ CarriersOf(after_list.l, v) = {}
                  /\ removed_items.l[i] = LastOccurrence(before_list.l, v)
        /\ \A i \in DOMAIN modified_items.l :
              LET entry == modified_items.l[i]
                  v == EntryIdentity(entry)
              IN  /\ entry.d[S_before] = LastOccurrence(before_list.l, v)
                  /\ entry.d[S_after] = LastOccurrence(after_list.l, v)
                  /\ DOMAIN entry.d[S_changed_fields].d =
                        DifferingFields(LastOccurrence(before_list.l, v),
                                        LastOccurrence(after_list.l, v))
        /\ \A v \in BeforeIds \cap AfterIds :
              DifferingFields(LastOccurrence(before_list.l, v),
                              LastOccurrence(after_list.l, v)) # {} =>
                  ModifiedAt(v) # {}
        /\ Diffs(added_items.l, removed_items.l, modified_items.l) \in
              compute_diffs(WithoutEarlierOccurrences(before_list.l),
                            WithoutEarlierOccurrences(after_list.l),
                            id_field.s, fields_to_compare.l)

\* before holds an identity value twice, first with the name the after
\* record has and then with another: the identity is reported as modified,
\* with the second record as its before record
C15_Witness ==
    /\ Computed
    /\ Len(before_list.l) = 2
    /\ Len(after_list.l) = 1
    /\ CarriersOf(before_list.l, IdentityOf(after_list.l[1])) = {1, 2}
    /\ DifferingFields(before_list.l[1], after_list.l[1]) = {}
    /\ DifferingFields(before_list.l[2], after_list.l[1]) # {}
    /\ Len(modified_items.l) = 1
    /\ modified_items.l[1].d[S_before] = before_list.l[2]

\* ------------------------------------------------------------------------
\* Properties of run_server

\* the replies run_server can give to a payload: what handle_message
\* returns, or the error response of the exception that leaves it
ExpectedReplies(payload) ==
    {IF o.raised THEN ErrorBytes(MsgInternalPrefix \o o.exc) ELSE o.bytes :
        o \in handle_message(payload)}

\* handle_message raises for the payload
Raises(payload) == \E o \in handle_message(payload) : o.raised

\* {"error":"Internal error: 
InternalErrorStart ==
    <<123>> \o JsonString(S_error) \o <<58, 34>> \o MsgInternalPrefix

StartsWith(bytes, prefix) ==
    Len(bytes) >= Len(prefix) /\ SubSeq(bytes, 1, Len(prefix)) = prefix

\* a request is being handled: it is the last one received and has no
\* reply yet
Handling == pc \in {"parse", "validate", "compute", "respond", "except", "send"}

\* every request received so far has its one reply, but for the one being
\* handled, and reply i is the answer to request i
OneReplyEach ==
    /\ pc = "recv" => Len(sent) = Len(received)
    /\ Handling => Len(received) = Len(sent) + 1 /\ raw_request = received[Len(received)]
    /\ Len(sent) <= Len(received)
    /\ \A i \in DOMAIN sent :
          /\ sent[i] \in ExpectedReplies(received[i])
          /\ Raises(received[i]) => StartsWith(sent[i], InternalErrorStart)

\* C14: in run_server every request received is answered by exactly one
\* reply before the next receive; when handle_message raises, the reply is
\* the error response 'Internal error: ...', and the loop goes back to
\* receive and answers the requests that follow as it answers any request.
C14_OneReplyThenNextReceive ==
    /\ []OneReplyEach
    /\ [][pc = "recv" /\ received' # received =>
            Len(sent) = Len(received) /\ Len(received') = Len(received) + 1]_vars
    /\ [][pc = "send" /\ pc' # "interrupt" =>
            /\ pc' = "recv"
            /\ sent' = Append(sent, response_bytes)
            /\ socket_open' /\ context_open']_vars
    /\ [][pc = "except" /\ pc' # "interrupt" =>
            /\ pc' = "send"
            /\ response_bytes' = ErrorBytes(MsgInternalPrefix \o exception)]_vars
    /\ (Handling ~> pc \in {"recv", "interrupt"})

\* two exchanges: handle_message raised for the first request, a payload of
\* bytes that are no text, and the reply was the Internal error response;
\* the second request, with a record added, got its status ok reply
C14_Witness ==
    /\ pc = "recv"
    /\ Len(sent) = 2
    /\ received[1].wire = "binary"
    /\ sent[1] = ErrorBytes(MsgInternalPrefix \o ExcUnicode)
    /\ received[2].wire = "json"
    /\ ~Raises(received[2])
    /\ IsSubstring(JsonString(S_status) \o <<58>> \o JsonString(S_ok), sent[2])
    /\ IsSubstring(JsonString(S_added_items) \o <<58, 91, 123>>, sent[2])

\* C16 as stated: the serve loop of the diff service waits for a request
\* with a receive timeout, so every wait ends, a request or none, and the
\* loop is left with the socket closed and the context terminated.
C16_BoundedReceive ==
    /\ pc = "recv" ~> pc # "recv"
    /\ [](pc = "closed" => ~socket_open /\ ~context_open)

\* C16, amended: the receive has no timeout: only a request or a
\* KeyboardInterrupt ends the wait.  A KeyboardInterrupt ends the loop from
\* anywhere, with or without a request, and then the finally clause closes
\* the socket and terminates the context.
C16_BlockingReceive ==
    /\ [][pc = "recv" /\ pc' # "recv" =>
            \/ pc' = "parse" /\ received' = Append(received, raw_request')
            \/ pc' = "interrupt"]_vars
    /\ [](pc \in {"recv", "parse", "validate", "compute", "respond", "except", "send"}
            => ENABLED Interrupt)
    /\ [](IF pc = "closed" THEN ~socket_open /\ ~context_open
                            ELSE socket_open /\ context_open)
    /\ (pc = "interrupt" ~> pc = "closed")

\* the service shut down with no request ever received
C16_Witness ==
    /\ pc = "closed"
    /\ received = <<>>
    /\ ~socket_open
    /\ ~context_open

\* ------------------------------------------------------------------------
\* Properties of the summary service's run_server

C17_WitnessPending ==
    /\ stop_event
    /\ pc = "handle"
    /\ Len(received) = Len(sent) + 1

====
